---- MODULE Spec2Model ----
(***************************************************************************)
(* A model of package unsafeslice (bcmills/unsafeslice):                   *)
(*   - the slice-header operations SetAt, ConvertAt and ConvertTo, with    *)
(*     each store to the destination header as one step;                   *)
(*   - the mutation monitor behind OfString and AsString (checksum at      *)
(*     aliasing time, race probe, deferred recheck in a finalizer);        *)
(*   - package internal/eventually, the gate that holds finalizer          *)
(*     registrations back until an unblock call.                           *)
(* The repository holds several versions of some files; each version is a  *)
(* value of a build variable chosen in the initial state.                  *)
(***************************************************************************)
EXTENDS Integers, Sequences, FiniteSets, Bags, TLC

(***************************************************************************)
(* Bounds of the model.                                                    *)
(***************************************************************************)
\* Width in bits of uintptr and int.
W == 3

\* 2^n.
RECURSIVE Pow2(_)
Pow2(n) == IF n = 0 THEN 1 ELSE 2 * Pow2(n - 1)

WordMod == Pow2(W)
MaxInt == Pow2(W - 1) - 1

\* Element sizes (reflect.Type.Size, unsafe.Sizeof) of the slice types used.
ElemSizes == {0, 1, 2, 3, 4}

\* Data addresses of source slices and of the pointers given to SetAt.
SrcAddrs == {1, 2}

\* The data address of the slice a caller's variable held before the call.
OldAddr == CHOOSE a \in 1..(Cardinality(SrcAddrs) + 1) : a \notin SrcAddrs

(***************************************************************************)
(* Machine arithmetic.                                                     *)
(***************************************************************************)
\* uintptr(x) * y, wrapping modulo 2^W.
MulUintptr(x, y) == (x * y) % WordMod

\* int(u) for a uintptr u: the two's complement reading of the same bits.
IntOf(u) == IF u >= Pow2(W - 1) THEN u - WordMod ELSE u

\* uintptr(i) for an int i.
UintptrOf(i) == i % WordMod

\* "int(x) < 0 || uintptr(int(x)) != x"
OverflowsInt(u) == IntOf(u) < 0 \/ UintptrOf(IntOf(u)) # u

(***************************************************************************)
(* Slice headers and the values a caller can pass.                         *)
(***************************************************************************)
NilSlice == [Data |-> 0, Len |-> 0, Cap |-> 0]

\* The slices a caller can pass as src: 0 <= len <= cap, non-nil.
SrcSlices ==
  {s \in [Data : SrcAddrs, Len : 0..MaxInt, Cap : 0..MaxInt] : s.Len <= s.Cap}

\* What the variable at *dst can hold when a call starts: nil, or any valid
\* slice the caller stored there before.
PriorHdrs ==
  {s \in [Data : {0, OldAddr}, Len : 0..MaxInt, Cap : 0..MaxInt] :
     /\ s.Len <= s.Cap
     /\ s.Data = 0 => s.Cap = 0}

NoPanic == [text |-> "none", bytes |-> 0, size |-> 0, count |-> 0]

Panic(text, bytes, size, count) ==
  [text |-> text, bytes |-> bytes, size |-> size, count |-> count]

NoCall ==
  [fn |-> "none", src |-> NilSlice, srcElemSize |-> 0, dstElemSize |-> 0,
   p |-> 0, n |-> 0, dstIsPtrToSlice |-> TRUE, srcIsSlice |-> TRUE]

VARIABLES
  \* the header operations
  hdr,       \* the slice header at *dst
  pc,        \* "idle", "storing", "returned" or "panicked"
  call,      \* the arguments of the call in progress or last finished
  todo,      \* the header stores the call in progress has still to make
  panicMsg,  \* the panic of the last call, NoPanic when it returned
  ret,       \* the slice returned by the last ConvertTo
  \* the mutation monitor and the gate
  build,     \* which version of each file is compiled, and the race flag
  mem,       \* mem[v]: the bytes of the range view v aliases
  th,        \* th[v][r]: the goroutine of view v in role r
  chk,       \* chk[v]: the slice and the checksum kept for view v
  reg,       \* reg[v]: how far the finalizer of view v is
  gate,      \* package eventually: unblocked, and the channels made so far
  pool,      \* hashPool: the bag of the states of the hashers put back
  seed,      \* the maphash seed and its sync.Once
  safetyReducedFlag,
  fatal,     \* the panic that ended the process, NoFatal while it runs
  hist,      \* hist[v]: what happened to view v (history, read by claims only)
  tpc        \* the position of TestStringMutations' subprocess, "off" outside it

convVars == <<hdr, pc, call, todo, panicMsg, ret>>

monVars == <<build, mem, th, chk, reg, gate, pool, seed, safetyReducedFlag,
             fatal, hist>>

vars == <<convVars, monVars, tpc>>

(***************************************************************************)
(* SetAt                                                                   *)
(***************************************************************************)
\* SetAtStores with the address installed before the old slice is cleared.
SetAtStores_DataFirst(p, n) ==
  << [f |-> "Data", v |-> p], [f |-> "Len", v |-> 0], [f |-> "Cap", v |-> 0],
     [f |-> "Cap", v |-> n], [f |-> "Len", v |-> n] >>

\* SetAtStores without the store that raises the capacity.
SetAtStores_NoCap(p, n) ==
  << [f |-> "Len", v |-> 0], [f |-> "Cap", v |-> 0], [f |-> "Data", v |-> p],
     [f |-> "Len", v |-> n] >>

\* The stores of SetAt to the header, in program order.
SetAtStores(p, n) ==
  << [f |-> "Len", v |-> 0], [f |-> "Cap", v |-> 0], [f |-> "Data", v |-> p],
     [f |-> "Cap", v |-> n], [f |-> "Len", v |-> n] >>

\* SetAt that stores through dst whatever its type.
SetAt_Unchecked(dstIsPtrToSlice, p, n) ==
  /\ pc = "idle"
  /\ call' = [NoCall EXCEPT !.fn = "SetAt", !.p = p, !.n = n,
                            !.dstIsPtrToSlice = dstIsPtrToSlice]
  /\ pc' = "storing"
  /\ panicMsg' = NoPanic
  /\ todo' = SetAtStores(p, n)
  /\ UNCHANGED <<hdr, ret, monVars, tpc>>

\* SetAt up to the first store: the check of dst's type.
SetAt(dstIsPtrToSlice, p, n) ==
  /\ pc = "idle"
  /\ call' = [NoCall EXCEPT !.fn = "SetAt", !.p = p, !.n = n,
                            !.dstIsPtrToSlice = dstIsPtrToSlice]
  /\ IF ~dstIsPtrToSlice
       THEN /\ pc' = "panicked"
            /\ panicMsg' = Panic("SetAt with dst type; need *[]T", 0, 0, 0)
            /\ todo' = << >>
       ELSE /\ pc' = "storing"
            /\ panicMsg' = NoPanic
            /\ todo' = SetAtStores(p, n)
  /\ UNCHANGED <<hdr, ret, monVars, tpc>>

(***************************************************************************)
(* ConvertAt                                                               *)
(***************************************************************************)
\* ConvertAtChecks without the two multiple-of-element-size checks: the
\* division truncates.
ConvertAtChecks_Truncating(src, srcElemSize, dstElemSize) ==
  LET capBytes == MulUintptr(UintptrOf(src.Len), srcElemSize)
      lenBytes == MulUintptr(UintptrOf(src.Cap), srcElemSize)
  IN  IF dstElemSize = 0
        THEN [panic |-> Panic("integer divide by zero", capBytes, dstElemSize, 0),
              dstCap |-> 0, dstLen |-> 0]
      ELSE IF OverflowsInt(capBytes \div dstElemSize)
        THEN [panic |-> Panic("dst capacity overflows int", 0, 0,
                              capBytes \div dstElemSize),
              dstCap |-> 0, dstLen |-> 0]
      ELSE IF OverflowsInt(lenBytes \div dstElemSize)
        THEN [panic |-> Panic("dst length overflows int", 0, 0,
                              lenBytes \div dstElemSize),
              dstCap |-> 0, dstLen |-> 0]
      ELSE [panic |-> NoPanic,
            dstCap |-> IntOf(capBytes \div dstElemSize),
            dstLen |-> IntOf(lenBytes \div dstElemSize)]

\* The checks of ConvertAt after the two type checks.  The result is the
\* panic, or NoPanic with the capacity and length to install.
ConvertAtChecks(src, srcElemSize, dstElemSize) ==
  LET capBytes == MulUintptr(UintptrOf(src.Len), srcElemSize)
      lenBytes == MulUintptr(UintptrOf(src.Cap), srcElemSize)
  IN  IF dstElemSize = 0
        THEN [panic |-> Panic("integer divide by zero", capBytes, dstElemSize, 0),
              dstCap |-> 0, dstLen |-> 0]
      ELSE IF capBytes % dstElemSize # 0
        THEN [panic |-> Panic("src capacity is not a multiple of dst element size",
                              capBytes, dstElemSize, 0),
              dstCap |-> 0, dstLen |-> 0]
      ELSE IF OverflowsInt(capBytes \div dstElemSize)
        THEN [panic |-> Panic("dst capacity overflows int", 0, 0,
                              capBytes \div dstElemSize),
              dstCap |-> 0, dstLen |-> 0]
      ELSE IF lenBytes % dstElemSize # 0
        THEN [panic |-> Panic("src length is not a multiple of dst element size",
                              lenBytes, dstElemSize, 0),
              dstCap |-> 0, dstLen |-> 0]
      ELSE IF OverflowsInt(lenBytes \div dstElemSize)
        THEN [panic |-> Panic("dst length overflows int", 0, 0,
                              lenBytes \div dstElemSize),
              dstCap |-> 0, dstLen |-> 0]
      ELSE [panic |-> NoPanic,
            dstCap |-> IntOf(capBytes \div dstElemSize),
            dstLen |-> IntOf(lenBytes \div dstElemSize)]

\* The stores of ConvertAt to the header, in program order.
ConvertAtStores(data, dstCap, dstLen) ==
  << [f |-> "Len", v |-> 0], [f |-> "Cap", v |-> 0], [f |-> "Data", v |-> data],
     [f |-> "Cap", v |-> dstCap], [f |-> "Len", v |-> dstLen] >>

\* ConvertAt up to the first store.
\* ConvertAt that stores Data before the checks on the extents.
ConvertAt_DataBeforeChecks(dstIsPtrToSlice, srcIsSlice, src, srcElemSize, dstElemSize) ==
  /\ pc = "idle"
  /\ call' = [NoCall EXCEPT !.fn = "ConvertAt", !.src = src,
                            !.srcElemSize = srcElemSize, !.dstElemSize = dstElemSize,
                            !.dstIsPtrToSlice = dstIsPtrToSlice,
                            !.srcIsSlice = srcIsSlice]
  /\ LET res == ConvertAtChecks(src, srcElemSize, dstElemSize)
     IN  IF ~srcIsSlice
           THEN /\ pc' = "panicked"
                /\ panicMsg' = Panic("ConvertAt with src type; need []T", 0, 0, 0)
                /\ todo' = << >>
                /\ hdr' = hdr
         ELSE IF ~dstIsPtrToSlice
           THEN /\ pc' = "panicked"
                /\ panicMsg' = Panic("ConvertAt with dst type; need *[]T", 0, 0, 0)
                /\ todo' = << >>
                /\ hdr' = hdr
         ELSE IF res.panic # NoPanic
           THEN /\ pc' = "panicked"
                /\ panicMsg' = res.panic
                /\ todo' = << >>
                /\ hdr' = [hdr EXCEPT !.Data = src.Data]
         ELSE /\ pc' = "storing"
              /\ panicMsg' = NoPanic
              /\ todo' = ConvertAtStores(src.Data, res.dstCap, res.dstLen)
              /\ hdr' = hdr
  /\ UNCHANGED <<ret, monVars, tpc>>

ConvertAt(dstIsPtrToSlice, srcIsSlice, src, srcElemSize, dstElemSize) ==
  /\ pc = "idle"
  /\ call' = [NoCall EXCEPT !.fn = "ConvertAt", !.src = src,
                            !.srcElemSize = srcElemSize, !.dstElemSize = dstElemSize,
                            !.dstIsPtrToSlice = dstIsPtrToSlice,
                            !.srcIsSlice = srcIsSlice]
  /\ LET res == ConvertAtChecks(src, srcElemSize, dstElemSize)
     IN  IF ~srcIsSlice
           THEN /\ pc' = "panicked"
                /\ panicMsg' = Panic("ConvertAt with src type; need []T", 0, 0, 0)
                /\ todo' = << >>
         ELSE IF ~dstIsPtrToSlice
           THEN /\ pc' = "panicked"
                /\ panicMsg' = Panic("ConvertAt with dst type; need *[]T", 0, 0, 0)
                /\ todo' = << >>
         ELSE IF res.panic # NoPanic
           THEN /\ pc' = "panicked"
                /\ panicMsg' = res.panic
                /\ todo' = << >>
         ELSE /\ pc' = "storing"
              /\ panicMsg' = NoPanic
              /\ todo' = ConvertAtStores(src.Data, res.dstCap, res.dstLen)
  /\ UNCHANGED <<hdr, ret, monVars, tpc>>

\* One store of SetAt or ConvertAt to a field of the header at *dst; the
\* call returns after the last one.
StoreField ==
  /\ pc = "storing"
  /\ todo # << >>
  /\ hdr' = [hdr EXCEPT ![Head(todo).f] = Head(todo).v]
  /\ todo' = Tail(todo)
  /\ pc' = IF Tail(todo) = << >> THEN "returned" ELSE "storing"
  /\ UNCHANGED <<call, panicMsg, ret, monVars, tpc>>

(***************************************************************************)
(* ConvertTo                                                               *)
(***************************************************************************)
\* ConvertToChecks without the two overflow checks: the count is converted
\* to int as it is.
ConvertToChecks_NoOverflowCheck(src, srcElemSize, dstElemSize) ==
  LET capBytes == MulUintptr(UintptrOf(src.Cap), srcElemSize)
      lenBytes == MulUintptr(UintptrOf(src.Len), srcElemSize)
  IN  IF dstElemSize = 0
        THEN [panic |-> Panic("integer divide by zero", capBytes, dstElemSize, 0),
              dstCap |-> 0, dstLen |-> 0]
      ELSE IF capBytes % dstElemSize # 0
        THEN [panic |-> Panic("src capacity is not a multiple of dst element size",
                              capBytes, dstElemSize, 0),
              dstCap |-> 0, dstLen |-> 0]
      ELSE IF lenBytes % dstElemSize # 0
        THEN [panic |-> Panic("src length is not a multiple of dst element size",
                              lenBytes, dstElemSize, 0),
              dstCap |-> 0, dstLen |-> 0]
      ELSE [panic |-> NoPanic,
            dstCap |-> IntOf(capBytes \div dstElemSize),
            dstLen |-> IntOf(lenBytes \div dstElemSize)]

\* ConvertToChecks that divides with no test of the remainders.
ConvertToChecks_Truncating(src, srcElemSize, dstElemSize) ==
  LET capBytes == MulUintptr(UintptrOf(src.Cap), srcElemSize)
      lenBytes == MulUintptr(UintptrOf(src.Len), srcElemSize)
  IN  IF dstElemSize = 0
        THEN [panic |-> Panic("integer divide by zero", capBytes, dstElemSize, 0),
              dstCap |-> 0, dstLen |-> 0]
      ELSE IF OverflowsInt(capBytes \div dstElemSize)
        THEN [panic |-> Panic("dst capacity overflows int", 0, 0,
                              capBytes \div dstElemSize),
              dstCap |-> 0, dstLen |-> 0]
      ELSE IF OverflowsInt(lenBytes \div dstElemSize)
        THEN [panic |-> Panic("dst length overflows int", 0, 0,
                              lenBytes \div dstElemSize),
              dstCap |-> 0, dstLen |-> 0]
      ELSE IF lenBytes \div dstElemSize > capBytes \div dstElemSize
        THEN [panic |-> Panic("slice bounds out of range", 0, 0,
                              lenBytes \div dstElemSize),
              dstCap |-> 0, dstLen |-> 0]
      ELSE [panic |-> NoPanic,
            dstCap |-> IntOf(capBytes \div dstElemSize),
            dstLen |-> IntOf(lenBytes \div dstElemSize)]

\* The checks of ConvertTo.
ConvertToChecks(src, srcElemSize, dstElemSize) ==
  LET capBytes == MulUintptr(UintptrOf(src.Cap), srcElemSize)
      lenBytes == MulUintptr(UintptrOf(src.Len), srcElemSize)
  IN  IF dstElemSize = 0
        THEN [panic |-> Panic("integer divide by zero", capBytes, dstElemSize, 0),
              dstCap |-> 0, dstLen |-> 0]
      ELSE IF capBytes % dstElemSize # 0
        THEN [panic |-> Panic("src capacity is not a multiple of dst element size",
                              capBytes, dstElemSize, 0),
              dstCap |-> 0, dstLen |-> 0]
      ELSE IF OverflowsInt(capBytes \div dstElemSize)
        THEN [panic |-> Panic("dst capacity overflows int", 0, 0,
                              capBytes \div dstElemSize),
              dstCap |-> 0, dstLen |-> 0]
      ELSE IF lenBytes % dstElemSize # 0
        THEN [panic |-> Panic("src length is not a multiple of dst element size",
                              lenBytes, dstElemSize, 0),
              dstCap |-> 0, dstLen |-> 0]
      ELSE IF OverflowsInt(lenBytes \div dstElemSize)
        THEN [panic |-> Panic("dst length overflows int", 0, 0,
                              lenBytes \div dstElemSize),
              dstCap |-> 0, dstLen |-> 0]
      ELSE IF lenBytes \div dstElemSize > capBytes \div dstElemSize
        \* unsafe.Slice(p, dstCap)[:dstLen] with dstLen > dstCap
        THEN [panic |-> Panic("slice bounds out of range", 0, 0,
                              lenBytes \div dstElemSize),
              dstCap |-> 0, dstLen |-> 0]
      ELSE [panic |-> NoPanic,
            dstCap |-> IntOf(capBytes \div dstElemSize),
            dstLen |-> IntOf(lenBytes \div dstElemSize)]

\* ConvertTo: the whole call; the result is a new slice value.
ConvertTo(src, srcElemSize, dstElemSize) ==
  /\ pc = "idle"
  /\ call' = [NoCall EXCEPT !.fn = "ConvertTo", !.src = src,
                            !.srcElemSize = srcElemSize, !.dstElemSize = dstElemSize]
  /\ LET res == ConvertToChecks(src, srcElemSize, dstElemSize)
     IN  IF res.panic # NoPanic
           THEN /\ pc' = "panicked"
                /\ panicMsg' = res.panic
                /\ ret' = NilSlice
           ELSE /\ pc' = "returned"
                /\ panicMsg' = NoPanic
                /\ ret' = [Data |-> src.Data, Len |-> res.dstLen, Cap |-> res.dstCap]
  /\ todo' = << >>
  /\ UNCHANGED <<hdr, monVars, tpc>>

(***************************************************************************)
(* The mutation monitor: values.                                           *)
(***************************************************************************)
\* The views: one call of OfString or AsString each, on a range of its own.
Views == {1, 2}

\* The number of bytes of a non-empty range.
RangeLen == 1

\* The values of a byte.
Bytes == {1, 2}

\* The address of the first byte of the range of view v.
RangeAddr(v) == 16 * v

\* The goroutines of a view: the caller of OfString or AsString, the race
\* probe, and the finalizer.
Roles == {"call", "probe", "fin"}

\* Width in bits of the digests.
HashBits == 4
HashMod == Pow2(HashBits)

\* The FNV-1a offset basis and prime, reduced to the digest width.
FnvOffset == 5
FnvPrime == 3

\* The seeds maphash.MakeSeed can return.
Seeds == {1, 2}

\* Bitwise exclusive or.
RECURSIVE Xor(_, _)
Xor(a, b) ==
  IF a = 0 THEN b
  ELSE IF b = 0 THEN a
  ELSE ((a + b) % 2) + 2 * Xor(a \div 2, b \div 2)

\* h.Write(bytes) on a hasher whose state is st: for each byte, xor then
\* multiply (FNV-1a; the seeded hash is folded the same way from its seed).
RECURSIVE HashWrite(_, _)
HashWrite(st, bytes) ==
  IF bytes = << >> THEN st
  ELSE HashWrite((Xor(st, Head(bytes)) * FnvPrime) % HashMod, Tail(bytes))

\* The state of a maphash.Hash that was never given a seed.
Unseeded == -1

\* No hasher (a hasher held has id 0).
NoHash == [id |-> -1, st |-> 0]

\* The versions of the monitor, of the hasher and of the gate in the source.
Monitors == {"closure", "sliceSummary", "mutationChecker", "unsafe"}
Hashers == {"fresh", "pooled", "maphash"}
Gates == {"chan", "nil"}

\* The builds whose files go together.
Builds ==
  {b \in [monitor : Monitors, hash : Hashers, gate : Gates, race : BOOLEAN] :
     /\ b.monitor = "closure" => b.hash = "fresh"
     /\ b.monitor \in {"sliceSummary", "mutationChecker"} =>
          b.hash \in {"pooled", "maphash"}
     /\ b.monitor = "unsafe" => (b.hash = "fresh" /\ ~b.race)}

\* unblocked == nil.
NilChan == -1

NoFatal == [text |-> "none", addr |-> 0]

MutationDetected(addr) ==
  [text |-> "mutation detected in string at address", addr |-> addr]

IdleThread == [pc |-> "off", h |-> NoHash, sum |-> 0]

NoChecker == [len |-> 0, checksum |-> 0]

\* The range the slice of view v points into: its own, unless the view was
\* made from the slice or string of another view.
RangeAt(v) ==
  IF hist[v].out.Data \in {0, RangeAddr(v)} THEN v
  ELSE CHOOSE u \in Views : RangeAddr(u) = hist[v].out.Data

\* The bytes of the slice kept for view v.
ViewBytes(v) == SubSeq(mem[RangeAt(v)], 1, chk[v].len)

Running == fatal = NoFatal

(***************************************************************************)
(* Package eventually: the gate.                                           *)
(***************************************************************************)
\* The number of Block calls of a run.
MaxBlocks == 2

\* Registration is not blocked: the channel unblocked is closed ("chan"),
\* or unblocked is nil ("nil").
GateOpen(g) ==
  IF build.gate = "chan" THEN g.unblocked \in g.closed
  ELSE g.unblocked = NilChan

\* The gate after init.
InitGate(b) ==
  IF b.gate = "chan"
    THEN [unblocked |-> 0, closed |-> {0}, pending |-> {}, made |-> 0]
    ELSE [unblocked |-> NilChan, closed |-> {}, pending |-> {}, made |-> 0]

\* What happened to a view: the header returned, whether its bytes were
\* written after the call, whether registration was blocked when SetFinalizer
\* was called, the channel unblocked held then, and the channels closed by
\* then.
NoHist ==
  [out |-> [Data |-> 0, Len |-> 0], written |-> FALSE, held |-> FALSE,
   epoch |-> NilChan, closedAt |-> {}]

\* Block up to its return.
Block ==
  /\ Running
  /\ gate.made < MaxBlocks
  /\ IF build.gate = "nil" /\ gate.unblocked # NilChan
       THEN /\ fatal' = [text |-> "cannot Block while already blocked", addr |-> 0]
            /\ gate' = gate
       ELSE /\ gate' = [gate EXCEPT !.unblocked = gate.made + 1,
                                    !.pending = @ \cup {gate.made + 1},
                                    !.made = @ + 1]
            /\ fatal' = fatal
  /\ UNCHANGED <<convVars, build, mem, th, chk, reg, pool, seed, safetyReducedFlag, hist>>

\* The channel closed by the unblock function returned by the Block that
\* made channel c: "chan" closes c, "nil" closes the channel in unblocked.
ClosedBy(g, c) ==
  IF build.gate = "chan" THEN c ELSE g.unblocked

\* Unblocked with no channel closed.
Unblocked_NoClose(g, c) ==
  IF build.gate = "chan"
    THEN [g EXCEPT !.pending = @ \ {c}]
    ELSE [g EXCEPT !.pending = @ \ {c}, !.unblocked = NilChan]

\* The gate after that unblock function: "nil" also sets unblocked to nil.
Unblocked(g, c) ==
  IF build.gate = "chan"
    THEN [g EXCEPT !.closed = @ \cup {ClosedBy(g, c)}, !.pending = @ \ {c}]
    ELSE [g EXCEPT !.closed = @ \cup {ClosedBy(g, c)}, !.pending = @ \ {c},
                   !.unblocked = NilChan]

\* A call of the unblock function returned by the Block that made channel c.
Unblock(c) ==
  /\ Running
  /\ c \in gate.pending
  /\ gate' = Unblocked(gate, c)
  /\ UNCHANGED <<convVars, build, mem, th, chk, reg, pool, seed, safetyReducedFlag, fatal,
                 hist>>

\* SetFinalizer that calls runtime.SetFinalizer whatever the gate.
SetFinalizerReg_Ungated(g) ==
  [st |-> "registered", wch |-> NilChan]

\* eventually.SetFinalizer as called by maybeDetectMutations for view v, the
\* last statement of the call: runtime.SetFinalizer at once when
\* registration is not blocked, else a goroutine that waits.  In "nil" the
\* goroutine is given the channel; in "chan" it reads unblocked when it runs.
SetFinalizerReg(g) ==
  IF GateOpen(g) THEN [st |-> "registered", wch |-> NilChan]
  ELSE IF build.gate = "chan" THEN [st |-> "spawned", wch |-> NilChan]
  ELSE [st |-> "waiting", wch |-> g.unblocked]

SetFinalizer(v) ==
  /\ Running
  /\ th[v]["call"].pc = "setFinalizer"
  /\ reg' = [reg EXCEPT ![v] = SetFinalizerReg(gate)]
  /\ th' = [th EXCEPT ![v]["call"].pc = "returned"]
  /\ hist' = [hist EXCEPT ![v].held = ~GateOpen(gate),
                          ![v].epoch = gate.unblocked,
                          ![v].closedAt = gate.closed]
  /\ UNCHANGED <<convVars, tpc, build, mem, chk, gate, pool, seed, safetyReducedFlag, fatal>>

\* The goroutine of SetFinalizer in "chan" evaluates unblocked.
WaiterRead(v) ==
  /\ Running
  /\ reg[v].st = "spawned"
  /\ reg' = [reg EXCEPT ![v] = [st |-> "waiting", wch |-> gate.unblocked]]
  /\ UNCHANGED <<convVars, tpc, build, mem, th, chk, gate, pool, seed, safetyReducedFlag,
                 fatal, hist>>

\* The goroutine of SetFinalizer receives from its closed channel and calls
\* runtime.SetFinalizer.
WaiterRecv(v) ==
  /\ Running
  /\ reg[v].st = "waiting"
  /\ reg[v].wch \in gate.closed
  /\ reg' = [reg EXCEPT ![v] = [st |-> "registered", wch |-> NilChan]]
  /\ UNCHANGED <<convVars, tpc, build, mem, th, chk, gate, pool, seed, safetyReducedFlag,
                 fatal, hist>>

(***************************************************************************)
(* The hashers.                                                            *)
(***************************************************************************)
\* The hashers are told apart in the runs that watch the pool; in the other
\* runs every hasher is written with the id 0, which changes nothing a
\* goroutine does.
TrackInstances == tpc.at = "pool"

\* The ids of the hashers that goroutines hold, and of those in the pool.
HeldIds == {th[v][r].h.id : v \in Views, r \in Roles} \ {NoHash.id}
PoolIds == {x.id : x \in BagToSet(pool)}

\* The id of a hasher made now: the first one not in use.
NewId ==
  IF TrackInstances
    THEN CHOOSE i \in 1..(Cardinality(Views \X Roles) + 1) :
           /\ i \notin HeldIds \cup PoolIds
           /\ \A j \in 1..(i - 1) : j \in HeldIds \cup PoolIds
    ELSE 0

\* A new hasher, in state st.
Hasher(st) == [id |-> NewId, st |-> st]

\* NewHashResults whose Get leaves in the pool the hasher it returns.
NewHashResults_NotRemoved ==
  IF build.hash = "fresh"
    THEN {[h |-> Hasher(FnvOffset), pool |-> pool]}
  ELSE IF build.hash = "maphash"
    THEN {[h |-> Hasher(Unseeded), pool |-> pool]}
  ELSE {[h |-> Hasher(FnvOffset), pool |-> pool]}
         \cup {[h |-> x, pool |-> pool] : x \in BagToSet(pool)}

\* newHash: the hasher returned and the pool left.  "fresh" is fnv.New64a(),
\* "maphash" is new(maphash.Hash), "pooled" is hashPool.Get(), which returns
\* a hasher that was put back or, as a sync.Pool may, a new one.
NewHashResults ==
  IF build.hash = "fresh"
    THEN {[h |-> Hasher(FnvOffset), pool |-> pool]}
  ELSE IF build.hash = "maphash"
    THEN {[h |-> Hasher(Unseeded), pool |-> pool]}
  ELSE {[h |-> Hasher(FnvOffset), pool |-> pool]}
         \cup {[h |-> x, pool |-> pool (-) SetToBag({x})] : x \in BagToSet(pool)}

\* initHash that resets a pooled hasher and sets no seed.
InitHashState_NoSeed(h) ==
  IF build.hash = "pooled" THEN FnvOffset ELSE h.st

\* initHash that leaves the hasher as newHash returned it.
InitHashState_Untouched(h) == h.st

\* The state initHash leaves hasher h in: h.Reset() for "pooled",
\* h.SetSeed(seed.seed) for "maphash".
InitHashState(h) ==
  IF build.hash = "pooled" THEN FnvOffset ELSE seed.seed

\* NewHash whose initHash tests "seed made" with no sync.Once: every
\* goroutine that finds the seed not made yet goes on to make one.
NewHash_NoOnce(v, r) ==
  /\ Running
  /\ th[v][r].pc = "newHash"
  /\ \E res \in NewHashResults :
       /\ pool' = res.pool
       /\ IF build.monitor = "closure"
            THEN /\ th' = [th EXCEPT ![v][r].h = res.h, ![v][r].pc = "write"]
                 /\ seed' = seed
          ELSE IF build.hash = "maphash" /\ seed.once # "done"
            THEN /\ th' = [th EXCEPT ![v][r].h = res.h, ![v][r].pc = "makeSeed"]
                 /\ seed' = [seed EXCEPT !.once = "running"]
          ELSE /\ th' = [th EXCEPT ![v][r].h = [res.h EXCEPT !.st = InitHashState(res.h)],
                                   ![v][r].pc = "write"]
               /\ seed' = seed
  /\ UNCHANGED <<convVars, tpc, build, mem, chk, reg, gate, safetyReducedFlag, fatal, hist>>

\* "h := newHash(); initHash(h)" (the closures of unsafeslice.go call newHash
\* alone).  With "maphash" the first caller of initHash goes on to make the
\* seed, and the others wait in seed.once.Do until it is made.
NewHash(v, r) ==
  /\ Running
  /\ th[v][r].pc = "newHash"
  /\ \E res \in NewHashResults :
       /\ pool' = res.pool
       /\ IF build.monitor = "closure"
            THEN /\ th' = [th EXCEPT ![v][r].h = res.h, ![v][r].pc = "write"]
                 /\ seed' = seed
          ELSE IF build.hash = "maphash" /\ seed.once = "new"
            THEN /\ th' = [th EXCEPT ![v][r].h = res.h, ![v][r].pc = "makeSeed"]
                 /\ seed' = [seed EXCEPT !.once = "running"]
          ELSE /\ build.hash = "maphash" => seed.once = "done"
               /\ th' = [th EXCEPT ![v][r].h = [res.h EXCEPT !.st = InitHashState(res.h)],
                                   ![v][r].pc = "write"]
               /\ seed' = seed
  /\ UNCHANGED <<convVars, tpc, build, mem, chk, reg, gate, safetyReducedFlag, fatal, hist>>

\* The function given to seed.once.Do, then the return of Do and SetSeed.
MakeSeed(v, r) ==
  /\ Running
  /\ th[v][r].pc = "makeSeed"
  /\ \E s \in Seeds :
       /\ seed' = [once |-> "done", seed |-> s]
       /\ th' = [th EXCEPT ![v][r].h.st = s, ![v][r].pc = "write"]
  /\ UNCHANGED <<convVars, tpc, build, mem, chk, reg, gate, pool, safetyReducedFlag, fatal, hist>>


(***************************************************************************)
(* The mutation monitor: maybeDetectMutations and its rechecks.            *)
(***************************************************************************)
\* A panic that names the address of the stored checksum, not of the bytes.
PanicAddr_OfChecksum(v) == RangeAddr(v) + 8

\* The address a "mutation detected" panic names: &b[0].
PanicAddr(v) == RangeAddr(RangeAt(v))

\* AfterChecksum that starts the probe in every build.
AfterChecksum_AlwaysProbe(thv) ==
  [thv EXCEPT !["call"] = [pc |-> "setFinalizer", h |-> NoHash, sum |-> 0],
              !["probe"].pc = "newHash"]

\* AfterChecksum in which the caller joins the probe before it goes on.
AfterChecksum_Joining(thv) ==
  [thv EXCEPT !["call"] = [pc |-> IF build.race THEN "join" ELSE "setFinalizer",
                           h |-> NoHash, sum |-> 0],
              !["probe"].pc = IF build.race THEN "newHash" ELSE "off"]

\* The goroutines of view v once the caller has stored the checksum:
\* "if raceEnabled { go recheck }", and the caller is about to call
\* eventually.SetFinalizer.
AfterChecksum(thv) ==
  [thv EXCEPT !["call"] = [pc |-> "setFinalizer", h |-> NoHash, sum |-> 0],
              !["probe"].pc = IF build.race THEN "newHash" ELSE "off"]

\* "h.Write(b)" and "h.Sum64()", with what the statement holding the sum does
\* with it: the closures and sliceSummary store it (the caller) or compare it
\* with the stored checksum and panic (a recheck); mutationChecker.sum64
\* keeps it.  A hasher that was never seeded takes a random seed first.
Write(v, r) ==
  /\ Running
  /\ th[v][r].pc = "write"
  /\ \E s0 \in (IF th[v][r].h.st = Unseeded THEN Seeds ELSE {th[v][r].h.st}) :
       LET sum == HashWrite(s0, ViewBytes(v))
           t1 == [th[v] EXCEPT ![r].h.st = sum, ![r].sum = sum]
       IN  IF build.monitor = "mutationChecker"
             THEN /\ th' = [th EXCEPT ![v] = [t1 EXCEPT ![r].pc = "dispose"]]
                  /\ UNCHANGED <<chk, fatal>>
           ELSE IF r = "call"
             THEN /\ chk' = [chk EXCEPT ![v].checksum = sum]
                  /\ th' = [th EXCEPT ![v] =
                              IF build.monitor = "closure" THEN AfterChecksum(t1)
                              ELSE [t1 EXCEPT ![r].pc = "dispose"]]
                  /\ fatal' = fatal
           ELSE IF sum # chk[v].checksum
             THEN /\ fatal' = MutationDetected(PanicAddr(v))
                  /\ th' = [th EXCEPT ![v] = [t1 EXCEPT ![r].pc = "panicked"]]
                  /\ chk' = chk
           ELSE /\ fatal' = fatal
                /\ chk' = chk
                /\ th' = [th EXCEPT ![v] =
                            IF build.monitor = "closure"
                              THEN [t1 EXCEPT ![r].pc = "done", ![r].h = NoHash]
                              ELSE [t1 EXCEPT ![r].pc = "dispose"]]
  /\ UNCHANGED <<convVars, tpc, build, mem, reg, gate, pool, seed, safetyReducedFlag, hist>>

\* disposeHash, and the rest of the statement that called it:
\* sliceSummary.recheck returns; mutationChecker.sum64 returns the sum, which
\* newMutationChecker stores and mutationChecker.recheck compares.
DisposeHash(v, r) ==
  /\ Running
  /\ th[v][r].pc = "dispose"
  /\ pool' = IF build.hash = "pooled" THEN pool (+) SetToBag({th[v][r].h}) ELSE pool
  /\ LET t1 == [th[v] EXCEPT ![r].h = NoHash]
     IN  IF r = "call"
           THEN /\ chk' = IF build.monitor = "mutationChecker"
                            THEN [chk EXCEPT ![v].checksum = th[v][r].sum]
                            ELSE chk
                /\ th' = [th EXCEPT ![v] = AfterChecksum(t1)]
                /\ fatal' = fatal
         ELSE IF build.monitor = "mutationChecker" /\ th[v][r].sum # chk[v].checksum
           THEN /\ fatal' = MutationDetected(PanicAddr(v))
                /\ th' = [th EXCEPT ![v] = [t1 EXCEPT ![r].pc = "panicked"]]
                /\ chk' = chk
         ELSE /\ fatal' = fatal
              /\ chk' = chk
              /\ th' = [th EXCEPT ![v] = [t1 EXCEPT ![r].pc = "done"]]
  /\ UNCHANGED <<convVars, tpc, build, mem, reg, gate, seed, safetyReducedFlag, hist>>

\* The runtime runs the finalizer of view v: the object is registered and
\* no goroutine holds it any more; finalizers run one at a time.
RunFinalizer(v) ==
  /\ Running
  /\ reg[v].st = "registered"
  /\ th[v]["call"].pc = "returned"
  /\ th[v]["probe"].pc \in {"off", "done"}
  /\ \A u \in Views : th[u]["fin"].pc \in {"off", "done"}
  /\ reg' = [reg EXCEPT ![v].st = "finalizing"]
  /\ th' = [th EXCEPT ![v]["fin"].pc = "newHash"]
  /\ UNCHANGED <<convVars, tpc, build, mem, chk, gate, pool, seed, safetyReducedFlag, fatal, hist>>

safetyReduced == safetyReducedFlag # 0

\* Unmonitored that does not consult the safety flag.
Unmonitored_IgnoringFlag(n) ==
  \/ build.monitor = "unsafe"
  \/ n = 0

\* Unmonitored that does not test the length.
Unmonitored_EmptyToo(n) ==
  \/ build.monitor = "unsafe"
  \/ (build.monitor = "closure" /\ safetyReduced)

\* maybeDetectMutations returns at once on a slice of length n.
Unmonitored(n) ==
  \/ build.monitor = "unsafe"
  \/ n = 0
  \/ (build.monitor = "closure" /\ safetyReduced)

\* OfString that returns a copy of the bytes, at another address.
OfStringHeader_Copy(addr, n) == [Data |-> addr + 8, Len |-> n, Cap |-> n]

\* The header OfString builds for a string of n bytes at addr.
OfStringHeader(addr, n) == [Data |-> addr, Len |-> n, Cap |-> n]

\* The header AsString builds for a slice of n bytes at addr.
AsStringHeader(addr, n) == [Data |-> addr, Len |-> n]

\* maybeDetectMutations(b) up to newHash, for the slice out of view v.
MaybeDetectMutations(v, out) ==
  /\ Running
  /\ th[v]["call"].pc = "off"
  /\ hist' = [hist EXCEPT ![v].out = [Data |-> out.Data, Len |-> out.Len]]
  /\ IF Unmonitored(out.Len)
       THEN /\ th' = [th EXCEPT ![v]["call"].pc = "returned"]
            /\ chk' = chk
       ELSE /\ th' = [th EXCEPT ![v]["call"].pc = "newHash"]
            /\ chk' = [chk EXCEPT ![v] = [len |-> out.Len, checksum |-> 0]]
  /\ UNCHANGED <<convVars, build, mem, reg, gate, pool, seed, safetyReducedFlag, fatal>>

\* OfString(s) for the string of n bytes on the range of view v.
OfString(v, n) == MaybeDetectMutations(v, OfStringHeader(RangeAddr(v), n))

\* AsString(b) for the slice of n bytes on the range of view v.
AsString(v, n) == MaybeDetectMutations(v, AsStringHeader(RangeAddr(v), n))

\* ReduceSafety.
\* ReduceSafety that also drops the rechecks registered so far.
ReduceSafety_Retroactive ==
  /\ Running
  /\ build.monitor = "closure"
  /\ safetyReducedFlag' = IF ~build.race THEN 1 ELSE safetyReducedFlag
  /\ reg' = [v \in Views |->
              IF reg[v].st = "registered" THEN [reg[v] EXCEPT !.st = "none"]
              ELSE reg[v]]
  /\ UNCHANGED <<convVars, build, mem, th, chk, gate, pool, seed, fatal, hist>>

ReduceSafety ==
  /\ Running
  /\ build.monitor = "closure"
  /\ safetyReducedFlag' = IF ~build.race THEN 1 ELSE safetyReducedFlag
  /\ UNCHANGED <<convVars, build, mem, th, chk, reg, gate, pool, seed, fatal, hist>>

\* Some code of the program writes byte b at index i of the slice of view v,
\* once the call that aliases it has begun.
Mutate(v, i, b) ==
  /\ Running
  /\ th[v]["call"].pc # "off"
  /\ i <= hist[v].out.Len
  /\ mem[v][i] # b
  /\ mem' = [mem EXCEPT ![v][i] = b]
  /\ hist' = [hist EXCEPT ![v].written = TRUE]
  /\ UNCHANGED <<convVars, build, th, chk, reg, gate, pool, seed, safetyReducedFlag, fatal>>

(***************************************************************************)
(* The specification of the monitor and the gate: any program.             *)
(***************************************************************************)
ConvertIdle ==
  /\ hdr = NilSlice
  /\ pc = "idle"
  /\ call = NoCall
  /\ todo = << >>
  /\ panicMsg = NoPanic
  /\ ret = NilSlice

InitMonitor(b) ==
  /\ build = b
  /\ mem = [v \in Views |-> [i \in 1..RangeLen |-> 1]]
  /\ th = [v \in Views |-> [r \in Roles |-> IdleThread]]
  /\ chk = [v \in Views |-> NoChecker]
  /\ reg = [v \in Views |-> [st |-> "none", wch |-> NilChan]]
  /\ gate = InitGate(b)
  /\ pool = EmptyBag
  /\ seed = [once |-> "new", seed |-> 0]
  /\ safetyReducedFlag = 0
  /\ fatal = NoFatal
  /\ hist = [v \in Views |-> NoHist]

\* TestStringMutations is not running.
TestOff == [at |-> "off", v |-> 0, i |-> 0]

\* Any build, with no call made yet.
InitAny ==
  /\ ConvertIdle
  /\ \E b \in Builds : InitMonitor(b)
  /\ tpc = TestOff

\* A program that never calls Block finds the two gates alike (both are open
\* for good), so its builds are told apart by monitor, hasher and race only.
Init ==
  /\ InitAny
  /\ build.gate = "chan"

\* The calls and the writes of a program that uses the package.
CallOfString == \E v \in Views, n \in {0, RangeLen} : OfString(v, n) /\ UNCHANGED tpc

CallAsString == \E v \in Views, n \in {0, RangeLen} : AsString(v, n) /\ UNCHANGED tpc

CallMutate == \E v \in Views, i \in 1..RangeLen, b \in Bytes : Mutate(v, i, b) /\ UNCHANGED tpc

CallReduceSafety == ReduceSafety /\ UNCHANGED tpc

CallBlock == Block /\ UNCHANGED tpc

CallUnblock == \E c \in gate.pending : Unblock(c) /\ UNCHANGED tpc

\* A program that leaves the gate alone, as every program outside the
\* package's tests does (Block is internal to the module).
Next ==
  \/ \E v \in Views, r \in Roles : NewHash(v, r)
  \/ \E v \in Views, r \in Roles : MakeSeed(v, r)
  \/ \E v \in Views, r \in Roles : Write(v, r)
  \/ \E v \in Views, r \in Roles : DisposeHash(v, r)
  \/ \E v \in Views : SetFinalizer(v)
  \/ \E v \in Views : RunFinalizer(v)
  \/ CallOfString
  \/ CallAsString
  \/ CallMutate
  \/ CallReduceSafety

Spec == Init /\ [][Next]_vars

\* A program that blocks and unblocks the gate around its calls and writes
\* no aliased byte.
NextGate ==
  \/ \E v \in Views, r \in Roles : NewHash(v, r)
  \/ \E v \in Views, r \in Roles : MakeSeed(v, r)
  \/ \E v \in Views, r \in Roles : Write(v, r)
  \/ \E v \in Views, r \in Roles : DisposeHash(v, r)
  \/ \E v \in Views : SetFinalizer(v)
  \/ \E v \in Views : WaiterRead(v)
  \/ \E v \in Views : WaiterRecv(v)
  \/ \E v \in Views : RunFinalizer(v)
  \/ CallOfString
  \/ CallAsString
  \/ CallBlock
  \/ CallUnblock

SpecGate == InitAny /\ [][NextGate]_vars

(***************************************************************************)
(* TestStringMutations: the subprocess that is expected to crash.          *)
(***************************************************************************)
\* The byte "Kaboom" puts where the range held the byte 1.
Kaboom == 2

\* The subprocess is about to call eventually.Block.  The test file is built
\* with the monitor only ("+build !unsafe race").
InitTest ==
  /\ ConvertIdle
  /\ \E b \in Builds : b.monitor # "unsafe" /\ InitMonitor(b)
  /\ tpc = [at |-> "block", v |-> 0, i |-> 0]

\* unblock := eventually.Block()
TestBlock ==
  /\ tpc.at = "block"
  /\ Block
  /\ tpc' = [at |-> "alias", v |-> 1, i |-> 0]

\* unsafeslice.AsString(b), or unsafeslice.OfString(s), on the next range.
TestAlias ==
  /\ tpc.at = "alias"
  /\ \/ AsString(tpc.v, RangeLen)
     \/ OfString(tpc.v, RangeLen)
  /\ tpc' = [tpc EXCEPT !.at = "copy", !.i = 1]

\* copy(b, "Kaboom"), one byte a step, once the aliasing call has returned;
\* then the next range, or unblock after the last.
TestCopy ==
  /\ tpc.at = "copy"
  /\ th[tpc.v]["call"].pc = "returned"
  /\ Mutate(tpc.v, tpc.i, Kaboom)
  /\ tpc' = IF tpc.i < RangeLen THEN [tpc EXCEPT !.i = @ + 1]
            ELSE IF tpc.v < Cardinality(Views) THEN [at |-> "alias", v |-> tpc.v + 1, i |-> 0]
            ELSE [at |-> "unblock", v |-> 0, i |-> 0]

\* unblock(), then "for { runtime.GC(); ... }".
TestUnblock ==
  /\ tpc.at = "unblock"
  /\ \E c \in gate.pending : Unblock(c)
  /\ tpc' = [at |-> "gc", v |-> 0, i |-> 0]

\* A step of a goroutine of the package, the caller's included.
Goroutine ==
  \/ \E v \in Views, r \in Roles : NewHash(v, r)
  \/ \E v \in Views, r \in Roles : MakeSeed(v, r)
  \/ \E v \in Views, r \in Roles : Write(v, r)
  \/ \E v \in Views, r \in Roles : DisposeHash(v, r)
  \/ \E v \in Views : SetFinalizer(v)
  \/ \E v \in Views : WaiterRead(v)
  \/ \E v \in Views : WaiterRecv(v)

\* The runtime runs a finalizer during one of the test's runtime.GC calls.
Reclaim ==
  /\ tpc.at = "gc"
  /\ \E v \in Views : RunFinalizer(v)

NextTest ==
  \/ TestBlock
  \/ TestAlias
  \/ TestCopy
  \/ TestUnblock
  \/ Goroutine
  \/ Reclaim

\* Every goroutine that can run does run, and under the reclamation
\* pressure of the test's loop a registered finalizer is run.
SpecTest ==
  /\ InitTest
  /\ [][NextTest]_vars
  /\ WF_vars(TestBlock \/ TestAlias \/ TestCopy \/ TestUnblock)
  /\ WF_vars(Goroutine)
  /\ WF_vars(Reclaim)
(***************************************************************************)
(* The specification of the header operations.                             *)
(***************************************************************************)
\* The header operations do not use the monitor: it stays as one build
\* starts it.
InitConvert ==
  /\ hdr \in PriorHdrs
  /\ pc = "idle"
  /\ call = NoCall
  /\ todo = << >>
  /\ panicMsg = NoPanic
  /\ ret = NilSlice
  /\ InitMonitor([monitor |-> "mutationChecker", hash |-> "maphash",
                  gate |-> "nil", race |-> FALSE])
  /\ tpc = TestOff

CallSetAt ==
  /\ pc = "idle"
  /\ \E ok \in BOOLEAN, p \in SrcAddrs, n \in 0..MaxInt : SetAt(ok, p, n)

CallConvertAt ==
  /\ pc = "idle"
  /\ \E dstOk \in BOOLEAN, srcOk \in BOOLEAN, src \in SrcSlices,
     s \in ElemSizes, d \in ElemSizes : ConvertAt(dstOk, srcOk, src, s, d)

CallConvertTo ==
  /\ pc = "idle"
  /\ \E src \in SrcSlices, s \in ElemSizes, d \in ElemSizes : ConvertTo(src, s, d)

NextConvert == CallSetAt \/ CallConvertAt \/ CallConvertTo \/ StoreField

SpecConvert == InitConvert /\ [][NextConvert]_vars

(***************************************************************************)
(* The round trip AsString(OfString(s)).                                   *)
(***************************************************************************)
\* b := OfString(s), for the string s of n bytes on the range of view 1; the
\* test keeps s as the range tpc.v and the length tpc.i.
RoundTripOfString ==
  /\ tpc.at = "off"
  /\ \E n \in {0, RangeLen} :
       /\ OfString(1, n)
       /\ tpc' = [at |-> "OfString", v |-> 1, i |-> n]

\* AsString(b), as view 2, once OfString has returned b.
RoundTripAsString ==
  /\ tpc.at = "OfString"
  /\ th[1]["call"].pc = "returned"
  /\ MaybeDetectMutations(2, AsStringHeader(hist[1].out.Data, hist[1].out.Len))
  /\ tpc' = [tpc EXCEPT !.at = "AsString"]

\* The round trip in a program that also reduces safety and blocks and
\* unblocks the gate, at any time.
NextRoundTrip ==
  \/ RoundTripOfString
  \/ RoundTripAsString
  \/ Goroutine
  \/ \E v \in Views : RunFinalizer(v)
  \/ CallReduceSafety
  \/ CallBlock
  \/ CallUnblock

SpecRoundTrip == InitAny /\ [][NextRoundTrip]_vars

(***************************************************************************)
(* The calls of a program whose goroutines are scheduled fairly.           *)
(***************************************************************************)
\* The program blocks registration once, at any time, and may release it or
\* never do.
BlockOnce ==
  /\ gate.made = 0
  /\ Block
  /\ UNCHANGED tpc

\* The program calls OfString and AsString at any time; the runtime may run
\* a finalizer or never do.
NextCalls ==
  \/ Goroutine
  \/ \E v \in Views : RunFinalizer(v)
  \/ CallOfString
  \/ CallAsString
  \/ BlockOnce
  \/ CallUnblock

\* The Go scheduler runs every goroutine that can take a step; nothing makes
\* the program release the gate or the runtime reclaim a view.
SpecCalls ==
  /\ InitAny
  /\ [][NextCalls]_vars
  /\ WF_vars(Goroutine)

(***************************************************************************)
(* A program that calls ReduceSafety.                                      *)
(***************************************************************************)
\* ReduceSafety is declared beside the closures of unsafeslice.go, so the
\* builds that have it are those of that version of the monitor.
InitReduce ==
  /\ InitAny
  /\ build.monitor = "closure"

\* The program's call of ReduceSafety, up to its return: the program is past
\* it from then on.
ReduceSafetyReturns ==
  /\ ReduceSafety
  /\ tpc' = [at |-> "reduced", v |-> 0, i |-> 0]

\* The program aliases ranges before and after it calls ReduceSafety.
NextReduce ==
  \/ \E v \in Views, r \in Roles : NewHash(v, r)
  \/ \E v \in Views, r \in Roles : Write(v, r)
  \/ \E v \in Views : SetFinalizer(v)
  \/ \E v \in Views : RunFinalizer(v)
  \/ CallOfString
  \/ CallAsString
  \/ ReduceSafetyReturns

SpecReduce == InitReduce /\ [][NextReduce]_vars

\* The same program, whose ranges are also written to.
NextRetro == NextReduce \/ CallMutate

SpecRetro == InitReduce /\ [][NextRetro]_vars

(***************************************************************************)
(* StrLen and OfCString.                                                   *)
(***************************************************************************)
\* The values of an element of a 0-terminated array: zero and two others.
CElems == {0, 1, 2}

\* unsafe.Sizeof(*p) for the element types StrLen is called with; a CChar
\* has size 1.
CElemSizes == {1, 2}

\* The arrays a caller can point StrLen at: some element is zero.  They are
\* long enough to hold more nonzero elements than an int can count.
CArrays ==
  {a \in [1..(MaxInt + 2) -> CElems] : a[MaxInt + 2] = 0}

\* The address of the array.
CArrayAddr == RangeAddr(1)

\* The element p points to, for elements of the given size.
Deref(p, size) == mem[1][(p - CArrayAddr) \div size + 1]

\* n++ on an int: wraps to the most negative int after the largest.
IncInt(n) == IntOf((UintptrOf(n) + 1) % WordMod)

\* One turn of the loop with no test of n.
StrLenTurn_NoOverflowCheck(elem, n, p, size) ==
  IF elem = 0 THEN [pc |-> "returned", n |-> n, p |-> p]
  ELSE [pc |-> "scanning", n |-> IncInt(n), p |-> p + size]

\* One turn of the loop of StrLen on the element elem that p points to:
\* "for *p != zero { n++; if n < 0 { panic }; p = unsafe.Add(p, size) }
\* return n".
StrLenTurn(elem, n, p, size) ==
  IF elem = 0 THEN [pc |-> "returned", n |-> n, p |-> p]
  ELSE IF IncInt(n) < 0 THEN [pc |-> "panicked", n |-> IncInt(n), p |-> p]
  ELSE [pc |-> "scanning", n |-> IncInt(n), p |-> p + size]

\* StrLen(p), or the StrLen(p) of OfCString(p), up to the loop: n := 0.
StrLenBegin(fn, size) ==
  /\ pc = "idle"
  /\ pc' = "scanning"
  /\ call' = [NoCall EXCEPT !.fn = fn, !.p = CArrayAddr, !.n = 0, !.srcElemSize = size]
  /\ UNCHANGED <<hdr, todo, panicMsg, ret, monVars, tpc>>

\* One turn of the loop; on the zero element StrLen returns n, and OfCString
\* returns unsafe.Slice(p, n).
StrLenStep ==
  /\ pc = "scanning"
  /\ LET t == StrLenTurn(Deref(call.p, call.srcElemSize), call.n, call.p,
                         call.srcElemSize)
     IN  /\ pc' = t.pc
         /\ call' = [call EXCEPT !.n = t.n, !.p = t.p]
         /\ panicMsg' = IF t.pc = "panicked" THEN Panic("length overflow", 0, 0, 0)
                        ELSE panicMsg
         /\ ret' = IF t.pc = "returned" /\ call.fn = "OfCString"
                     THEN [Data |-> CArrayAddr, Len |-> t.n, Cap |-> t.n]
                     ELSE ret
  /\ UNCHANGED <<hdr, todo, monVars, tpc>>

\* The array is in memory when the call starts; the monitor is not used.
InitCString ==
  /\ ConvertIdle
  /\ build = [monitor |-> "mutationChecker", hash |-> "maphash",
              gate |-> "nil", race |-> FALSE]
  /\ \E a \in CArrays :
       mem = [v \in Views |-> IF v = 1 THEN a ELSE [i \in 1..RangeLen |-> 1]]
  /\ th = [v \in Views |-> [r \in Roles |-> IdleThread]]
  /\ chk = [v \in Views |-> NoChecker]
  /\ reg = [v \in Views |-> [st |-> "none", wch |-> NilChan]]
  /\ gate = InitGate(build)
  /\ pool = EmptyBag
  /\ seed = [once |-> "new", seed |-> 0]
  /\ safetyReducedFlag = 0
  /\ fatal = NoFatal
  /\ hist = [v \in Views |-> NoHist]
  /\ tpc = TestOff

CallStrLen == \E size \in CElemSizes : StrLenBegin("StrLen", size)

CallOfCString == StrLenBegin("OfCString", 1)

NextCString == CallStrLen \/ CallOfCString \/ StrLenStep

SpecCString == InitCString /\ [][NextCString]_vars

(***************************************************************************)
(* The pool of hashers under concurrent checksum computations.             *)
(***************************************************************************)
\* The builds with the pooled hashers; the hashers are told apart.
InitPool ==
  /\ ConvertIdle
  /\ \E b \in Builds : b.hash = "pooled" /\ b.gate = "chan" /\ InitMonitor(b)
  /\ tpc = [at |-> "pool", v |-> 0, i |-> 0]

\* The callers, probes and finalizers of two views.
NextPool ==
  \/ \E v \in Views, r \in Roles : NewHash(v, r)
  \/ \E v \in Views, r \in Roles : Write(v, r)
  \/ \E v \in Views, r \in Roles : DisposeHash(v, r)
  \/ \E v \in Views : SetFinalizer(v)
  \/ \E v \in Views : RunFinalizer(v)
  \/ CallOfString
  \/ CallAsString

SpecPool == InitPool /\ [][NextPool]_vars

(***************************************************************************)
(* Claims about the header operations, checked under SpecConvert.          *)
(***************************************************************************)
\* A call of fn got past the type checks of its arguments.
Checked(fn) ==
  /\ call.fn = fn
  /\ pc \in {"storing", "returned", "panicked"}
  /\ panicMsg.text \notin {"SetAt with dst type; need *[]T",
                           "ConvertAt with src type; need []T",
                           "ConvertAt with dst type; need *[]T"}

\* The byte extents of the source of the call, as unbounded integers.
TrueLenBytes == call.src.Len * call.srcElemSize
TrueCapBytes == call.src.Cap * call.srcElemSize

\* The source of the call occupies memory: its byte extent fits in uintptr.
SrcFitsMemory == TrueCapBytes < WordMod

OverflowTexts == {"dst capacity overflows int", "dst length overflows int"}

ShapeTexts == {"src capacity is not a multiple of dst element size",
               "src length is not a multiple of dst element size"}

\* The slice a finished ConvertAt or ConvertTo produced.
Produced == IF call.fn = "ConvertTo" THEN ret ELSE hdr

\* C1: when ConvertAt returns normally, *dst has the data address of src,
\* Len * dstElemSize = len(src) * srcElemSize and
\* Cap * dstElemSize = cap(src) * srcElemSize.  Stated here for sources whose
\* byte extent fits in uintptr, where no product wraps.
C1_ConvertAtShapeLaw ==
  (Checked("ConvertAt") /\ pc = "returned" /\ SrcFitsMemory) =>
     /\ hdr.Data = call.src.Data
     /\ hdr.Len * call.dstElemSize = TrueLenBytes
     /\ hdr.Cap * call.dstElemSize = TrueCapBytes

\* The unbounded value of cap(src)*srcElemSize/dstElemSize or of
\* len(src)*srcElemSize/dstElemSize is not a non-negative int.
TrueCountOverflows ==
  /\ call.dstElemSize > 0
  /\ \/ TrueCapBytes \div call.dstElemSize > MaxInt
     \/ TrueLenBytes \div call.dstElemSize > MaxInt

LenBytes == MulUintptr(UintptrOf(call.src.Len), call.srcElemSize)
CapBytes == MulUintptr(UintptrOf(call.src.Cap), call.srcElemSize)

\* C9: ConvertAt and ConvertTo panic whenever len(src)*srcElemSize or
\* cap(src)*srcElemSize is not an exact multiple of the destination element
\* size; no header store is made and no slice is returned.
C9_ViolatingShapesFail ==
  \A fn \in {"ConvertAt", "ConvertTo"} :
    (/\ Checked(fn)
     /\ call.dstElemSize > 0
     /\ \/ LenBytes % call.dstElemSize # 0
        \/ CapBytes % call.dstElemSize # 0)
    => (pc = "panicked" /\ todo = << >> /\ ret = NilSlice)

\* C9 witness: a byte slice of length 2 and capacity 3 converted to 2-byte
\* elements was rejected by ConvertAt.
C9_Witness ==
  /\ Checked("ConvertAt")
  /\ call.src.Len = 2 /\ call.src.Cap = 3
  /\ call.srcElemSize = 1 /\ call.dstElemSize = 2
  /\ pc = "panicked"
  /\ panicMsg.text \in ShapeTexts

\* The address the call in progress installs.
NewData == IF call.fn = "SetAt" THEN call.p ELSE call.src.Data

\* C10: taking each header store of SetAt and ConvertAt as one step, Data is
\* replaced only while Len and Cap are both zero, Len and Cap are raised to
\* a nonzero value only while Data holds the new address, and a zero Data
\* never stands with a nonzero Len or Cap.
C10_NoPartialView ==
  /\ [](hdr.Data = 0 => (hdr.Len = 0 /\ hdr.Cap = 0))
  /\ [][/\ hdr'.Data # hdr.Data => (hdr.Len = 0 /\ hdr.Cap = 0)
        /\ (hdr'.Len # hdr.Len /\ hdr'.Len # 0) => hdr.Data = NewData
        /\ (hdr'.Cap # hdr.Cap /\ hdr'.Cap # 0) => hdr.Data = NewData]_vars

\* C10 witness: an intermediate state of a call on a slot that held another
\* slice: Data already holds the new address, Cap is raised, Len is not yet.
C10_Witness ==
  /\ pc = "storing"
  /\ Len(todo) = 1
  /\ hdr.Data = NewData
  /\ hdr.Cap > 0
  /\ hdr.Len = 0


(***************************************************************************)
(* Claims about the monitor, checked under Spec.                           *)
(***************************************************************************)
\* The rechecks of a view: the race probe and the finalizer.
Rechecks == {"probe", "fin"}

\* C2: while no byte of an aliased slice has been written since the call,
\* no recheck of it has panicked, and every recheck of it that has finished
\* computed the stored checksum - whatever the hasher, and however the calls
\* on the views interleave.
C2_NoFalseViolation ==
  \A v \in Views : ~hist[v].written =>
    /\ fatal # MutationDetected(RangeAddr(v))
    /\ \A r \in Rechecks :
         /\ th[v][r].pc # "panicked"
         /\ th[v][r].pc = "done" => th[v][r].sum = chk[v].checksum

\* Both rechecks of an unwritten view have finished, with a pooled hasher
\* the caller of the other view had used.
C2_Witness ==
  \E v \in Views, u \in Views :
    /\ u # v
    /\ build.hash = "pooled"
    /\ chk[u].len > 0 /\ chk[v].len > 0
    /\ ~hist[v].written
    /\ th[v]["probe"].pc = "done"
    /\ th[v]["fin"].pc = "done"

\* C3: a recheck that computed a sum other than the stored checksum has
\* aborted the process with "mutation detected" and the address of the first
\* byte of its slice, or is about to unless another recheck has aborted it
\* (mutationChecker compares after disposeHash); a recheck goes on past the
\* comparison only with the stored checksum; and nothing else aborts the
\* process.
C3_MismatchIsFatal ==
  /\ \A v \in Views, r \in Rechecks :
       /\ th[v][r].pc = "panicked" =>
            /\ th[v][r].sum # chk[v].checksum
            /\ fatal = MutationDetected(RangeAddr(v))
       /\ th[v][r].pc = "done" => th[v][r].sum = chk[v].checksum
       /\ (th[v][r].pc = "dispose" /\ th[v][r].sum # chk[v].checksum) =>
            /\ build.monitor = "mutationChecker"
            /\ fatal # NoFatal \/ ENABLED DisposeHash(v, r)
  /\ fatal # NoFatal =>
       \E v \in Views, r \in Rechecks :
         th[v][r].pc = "panicked" /\ fatal = MutationDetected(RangeAddr(v))

\* The probe of a view passed, its bytes were written, and its finalizer
\* aborted the process.
C3_Witness ==
  \E v \in Views :
    /\ th[v]["probe"].pc = "done"
    /\ hist[v].written
    /\ th[v]["fin"].pc = "panicked"
    /\ fatal = MutationDetected(RangeAddr(v))

(***************************************************************************)
(* Claims about the gate, checked under SpecGate.                          *)
(***************************************************************************)
Registered(v) == reg[v].st \in {"registered", "finalizing"}

\* An unblock function has been called since SetFinalizer was called for v.
UnblockedSince(v) == gate.closed # hist[v].closedAt

\* The unblock function of the Block that held v's registration back has
\* been called.
Released(v) == hist[v].epoch \in gate.closed

C6_ReleaseRegistersAll ==
  \A v \in Views : (hist[v].held /\ Released(v)) =>
    \/ Registered(v)
    \/ reg[v].st = "spawned"
    \/ reg[v].st = "waiting" /\ reg[v].wch \in gate.closed

\* C7: at most one Block is waiting for its unblock.
C7_AtMostOneClosedEpoch == Cardinality(gate.pending) <= 1

(***************************************************************************)
(* The claim about TestStringMutations, checked under SpecTest.            *)
(***************************************************************************)
\* C4: the subprocess of TestStringMutations aborts with "mutation detected",
\* and from unblock on every finalizer gets registered unless the abort
\* comes first.
C4_GateDeterminism ==
  /\ <>(fatal.text = "mutation detected in string at address")
  /\ (tpc.at = "gc") ~> (\/ fatal # NoFatal
                         \/ \A v \in Views : Registered(v))

\* Every range was aliased with registration blocked and then overwritten,
\* unblock was called, and a finalizer aborted the process.
C4_Witness ==
  /\ tpc.at = "gc"
  /\ \A v \in Views : hist[v].held /\ Released(v) /\ hist[v].written
  /\ \E v \in Views : th[v]["fin"].pc = "panicked"
  /\ fatal.text = "mutation detected in string at address"
(***************************************************************************)
(* Claims about the round trip, checked under SpecRoundTrip.               *)
(***************************************************************************)
\* The string s the round trip started from, as address and length.
RoundTripArg == [Data |-> RangeAddr(tpc.v), Len |-> tpc.i]

\* The bytes of a string or slice of n bytes at the range of view u.
BytesAt(u, n) == SubSeq(mem[u], 1, n)

\* C11: once OfString(s) has returned, its slice has the data address and the
\* length of s; once AsString of that slice has returned, its string has the
\* data address and the length of s too, and so the bytes of s: nothing was
\* copied, whatever the build, the safety mode and the state of the gate.
C11_RoundTrip ==
  /\ (tpc.at \in {"OfString", "AsString"} /\ th[1]["call"].pc = "returned")
       => hist[1].out = RoundTripArg
  /\ (tpc.at = "AsString" /\ th[2]["call"].pc = "returned")
       => /\ hist[2].out = RoundTripArg
          /\ RangeAt(2) = tpc.v
          /\ BytesAt(RangeAt(2), hist[2].out.Len) = BytesAt(tpc.v, tpc.i)

\* A round trip of a non-empty string that came back while registration was
\* blocked.
C11_Witness ==
  /\ tpc.at = "AsString"
  /\ th[2]["call"].pc = "returned"
  /\ tpc.i = RangeLen
  /\ gate.pending # {}
  /\ hist[2].out = RoundTripArg

(***************************************************************************)
(* More claims about the header operations, checked under SpecConvert.     *)
(***************************************************************************)
\* C12: when ConvertTo returns normally, the slice returned has the data
\* address of src, len * dstElemSize = len(src) * srcElemSize and
\* cap * dstElemSize = cap(src) * srcElemSize, so len <= cap.  Stated, as C1
\* is, for sources whose byte extent fits in uintptr, where no product
\* wraps.
C12_ConvertToShapeLaw ==
  (Checked("ConvertTo") /\ pc = "returned" /\ SrcFitsMemory) =>
     /\ ret.Data = call.src.Data
     /\ ret.Len * call.dstElemSize = TrueLenBytes
     /\ ret.Cap * call.dstElemSize = TrueCapBytes
     /\ ret.Len <= ret.Cap

\* C12 witness: ConvertTo returned a slice of another element size whose
\* length and capacity differ.
C12_Witness ==
  /\ Checked("ConvertTo")
  /\ pc = "returned"
  /\ SrcFitsMemory
  /\ call.srcElemSize # call.dstElemSize
  /\ call.src.Len # call.src.Cap
  /\ ret.Len # ret.Cap
  /\ ret.Data = call.src.Data

\* C13: whatever *dst held before, once SetAt(dst, p, n) has returned *dst
\* has Data = p, Len = n and Cap = n: it is the slice of n elements at p.
C13_SetAtPostcondition ==
  (Checked("SetAt") /\ pc = "returned") =>
     hdr = [Data |-> call.p, Len |-> call.n, Cap |-> call.n]

\* C13 witness: SetAt returned with a non-empty slice at p installed.
C13_Witness ==
  /\ Checked("SetAt")
  /\ pc = "returned"
  /\ call.n > 0
  /\ hdr.Data = call.p
  /\ hdr.Len = call.n
  /\ hdr.Cap = call.n

(***************************************************************************)
(* Claims about the calls, checked under SpecCalls.                        *)
(***************************************************************************)
\* The call of OfString or AsString of view v has begun and not returned.
InCall(v) == th[v]["call"].pc \notin {"off", "returned"}

\* The caller of view v can take its next step.
CallerCanStep(v) ==
  ENABLED (\/ NewHash(v, "call")
           \/ MakeSeed(v, "call")
           \/ Write(v, "call")
           \/ DisposeHash(v, "call")
           \/ SetFinalizer(v))

\* Another caller is inside seed.once.Do, making the seed of the package.
SeedBeingMade ==
  /\ seed.once = "running"
  /\ \E u \in Views : th[u]["call"].pc = "makeSeed"

\* C14: a call of OfString or AsString in progress can always take its next
\* step, but for the time another caller takes to make the hash seed: it
\* waits for no gate, no probe and no recheck.  So every call returns, also
\* in the runs in which registration is blocked and never released.
C14_CallsReturn ==
  \A v \in Views :
    /\ [](InCall(v) => (CallerCanStep(v) \/ SeedBeingMade))
    /\ InCall(v) ~> (th[v]["call"].pc = "returned")

\* C14 witness: a monitored call has returned its view while registration is
\* blocked and its finalizer is held back, with the race probe not finished.
C14_Witness ==
  \E v \in Views :
    /\ th[v]["call"].pc = "returned"
    /\ hist[v].out.Len > 0
    /\ gate.pending # {}
    /\ reg[v].st \in {"spawned", "waiting"}
    /\ th[v]["probe"].pc \notin {"off", "done"}

(***************************************************************************)
(* Claims about ReduceSafety, checked under SpecReduce.                    *)
(***************************************************************************)
\* The call of view v returned with nothing set up: no checksum, no probe,
\* no finalizer registered or waiting to be.
Bare(v) ==
  /\ th[v]["call"].pc = "returned"
  /\ chk[v] = NoChecker
  /\ th[v]["probe"].pc = "off"
  /\ th[v]["fin"].pc = "off"
  /\ reg[v].st = "none"

\* The call of view v is monitored: the checksum of its bytes is being
\* computed or is kept, and once the call has returned the probe was
\* started (race builds) and the recheck is registered or waiting to be.
Monitored(v) ==
  /\ chk[v].len = hist[v].out.Len
  /\ th[v]["call"].pc # "off"
  /\ th[v]["call"].pc = "returned" =>
        /\ reg[v].st # "none"
        /\ build.race => th[v]["probe"].pc # "off"

\* C15: once ReduceSafety has returned, the flag is set exactly in the builds
\* without the race detector.  There, a call that begins after that returns
\* in the same step with no checksum, no probe and no registration, and
\* stays so; with the race detector, a call on a non-empty range that
\* begins after that is monitored, as every such call is.
C15_ReduceSafety ==
  /\ [](tpc.at = "reduced" => (safetyReduced <=> ~build.race))
  /\ [][\A v \in Views :
          (tpc.at = "reduced" /\ th[v]["call"].pc = "off" /\ th'[v]["call"].pc # "off")
            => IF build.race
                 THEN hist'[v].out.Len > 0 =>
                        (th'[v]["call"].pc = "newHash" /\ chk'[v].len = hist'[v].out.Len)
                 ELSE th'[v]["call"].pc = "returned" /\ chk'[v] = NoChecker]_vars
  /\ [](\A v \in Views :
          (th[v]["call"].pc = "returned" /\ chk[v] = NoChecker) => Bare(v))
  /\ [](\A v \in Views :
          (build.race /\ hist[v].out.Len > 0 /\ th[v]["call"].pc # "off") => Monitored(v))

\* C15 witness: without the race detector, a non-empty range aliased before
\* ReduceSafety has its recheck registered, and a non-empty range aliased
\* after it has nothing.
C15_Witness ==
  /\ ~build.race
  /\ tpc.at = "reduced"
  /\ \E u, v \in Views :
       /\ hist[u].out.Len > 0 /\ reg[u].st = "registered"
       /\ hist[v].out.Len > 0 /\ Bare(v)

(***************************************************************************)
(* More claims about the monitor, checked under Spec.                      *)
(***************************************************************************)
\* C16: a call of OfString or AsString on an empty range returns in the step
\* it begins with no checksum computed, no probe started and no recheck
\* registered, and nothing is set up for it later: in every build, with
\* safety reduced or not.
C16_EmptyUnmonitored ==
  \A v \in Views :
    (th[v]["call"].pc # "off" /\ hist[v].out.Len = 0) => Bare(v)

\* C16 witness: with safety not reduced and the race detector on, an empty
\* range was aliased and has nothing, while the non-empty range aliased
\* beside it has its probe done and its recheck registered.
C16_Witness ==
  /\ build.race
  /\ ~safetyReduced
  /\ \E u, v \in Views :
       /\ th[v]["call"].pc # "off" /\ hist[v].out.Len = 0 /\ Bare(v)
       /\ hist[u].out.Len > 0
       /\ th[u]["probe"].pc = "done"
       /\ reg[u].st = "registered"

(***************************************************************************)
(* Claims about the scan of 0-terminated arrays, checked under SpecCString.*)
(***************************************************************************)
\* The array StrLen was pointed at.
CArray == mem[1]

\* The number of nonzero elements before the first zero element, which is
\* the index of that element.
NonzeroPrefix ==
  (CHOOSE i \in 1..Len(CArray) :
     CArray[i] = 0 /\ \A j \in 1..(i - 1) : CArray[j] # 0) - 1

\* C17: StrLen returns the number of nonzero elements before the first zero
\* element; OfCString returns the slice at p whose length and capacity are
\* that number, so without the terminator; the count never wraps: a call on
\* an array with more nonzero elements than the largest int panics with
\* "length overflow", and no other call panics.
C17_CStringScan ==
  call.fn \in {"StrLen", "OfCString"} =>
    /\ pc = "returned" =>
         /\ call.n = NonzeroPrefix
         /\ call.fn = "OfCString" =>
               ret = [Data |-> CArrayAddr, Len |-> NonzeroPrefix, Cap |-> NonzeroPrefix]
    /\ pc \in {"scanning", "returned"} => call.n \in 0..MaxInt
    /\ pc = "panicked" =>
         (NonzeroPrefix > MaxInt /\ panicMsg.text = "length overflow")
    /\ NonzeroPrefix > MaxInt => pc # "returned"

\* C17 witness: OfCString returned the slice of the two nonzero elements
\* that stand before the first zero, with more nonzero elements after it.
C17_Witness ==
  /\ call.fn = "OfCString"
  /\ pc = "returned"
  /\ ret = [Data |-> CArrayAddr, Len |-> 2, Cap |-> 2]
  /\ CArray[3] = 0
  /\ CArray[4] # 0

\* C17, the overflow case: a scan was stopped by the panic.
C17_WitnessOverflow ==
  /\ call.fn = "StrLen"
  /\ pc = "panicked"
  /\ NonzeroPrefix = MaxInt + 1

(***************************************************************************)
(* Claims about rejected calls, checked under SpecConvert.                 *)
(***************************************************************************)
\* C18: a call of SetAt or ConvertAt whose dst is not a pointer to a slice,
\* and a call of ConvertAt whose src is not a slice, panics in the step of
\* the call with the message of that argument (src is looked at first), with
\* no store pending; the step of a panic and every step after it leave the
\* header at *dst as it was.
C18_InvalidRejected ==
  /\ []((call.fn = "SetAt" /\ ~call.dstIsPtrToSlice) =>
          /\ pc = "panicked"
          /\ todo = << >>
          /\ panicMsg.text = "SetAt with dst type; need *[]T")
  /\ []((call.fn = "ConvertAt" /\ ~call.srcIsSlice) =>
          /\ pc = "panicked"
          /\ todo = << >>
          /\ panicMsg.text = "ConvertAt with src type; need []T")
  /\ []((call.fn = "ConvertAt" /\ call.srcIsSlice /\ ~call.dstIsPtrToSlice) =>
          /\ pc = "panicked"
          /\ todo = << >>
          /\ panicMsg.text = "ConvertAt with dst type; need *[]T")
  /\ [][(pc' = "panicked" \/ pc = "panicked") => hdr' = hdr]_vars

\* C18 witness: ConvertAt was given a slice and a dst that is no pointer to
\* a slice, over a slot holding a non-empty slice: it panicked and the slot
\* still holds that slice.
C18_Witness ==
  /\ call.fn = "ConvertAt"
  /\ call.srcIsSlice
  /\ ~call.dstIsPtrToSlice
  /\ pc = "panicked"
  /\ hdr.Data = OldAddr
  /\ hdr.Len > 0

\* C19: at every step of SetAt and of ConvertAt, and once they are done, the
\* header at *dst has 0 <= Len <= Cap.
C19_HeaderAlwaysValid ==
  call.fn \in {"SetAt", "ConvertAt"} =>
    (0 <= hdr.Len /\ hdr.Len <= hdr.Cap)

\* C19 for SetAt alone.
C19_SetAtHeaderValid ==
  call.fn = "SetAt" => (0 <= hdr.Len /\ hdr.Len <= hdr.Cap)

\* C20: a ConvertAt rejected with the "src capacity" message reports
\* cap(src) * srcElemSize bytes, which is no multiple of the dst element
\* size it reports too; a ConvertAt rejected with the "src length" message
\* reports len(src) * srcElemSize bytes, which is no multiple of it.
C20_DiagnosticsNameQuantity ==
  (Checked("ConvertAt") /\ pc = "panicked") =>
     /\ panicMsg.text = "src capacity is not a multiple of dst element size" =>
          /\ panicMsg.bytes = CapBytes
          /\ panicMsg.size = call.dstElemSize
          /\ CapBytes % call.dstElemSize # 0
     /\ panicMsg.text = "src length is not a multiple of dst element size" =>
          /\ panicMsg.bytes = LenBytes
          /\ panicMsg.size = call.dstElemSize
          /\ LenBytes % call.dstElemSize # 0

(***************************************************************************)
(* Claims about the background work of a view, checked under SpecGate.     *)
(***************************************************************************)
\* The race probe of view v was started.
ProbeStarted(v) == th[v]["probe"].pc # "off"

\* eventually.SetFinalizer was called for view v.
RegistrationRequested(v) == reg[v].st # "none"

\* eventually.SetFinalizer started its goroutine for view v.
WaiterStarted(v) ==
  \/ reg[v].st \in {"spawned", "waiting"}
  \/ (reg[v].st \in {"registered", "finalizing"} /\ hist[v].held)

\* How far a goroutine, and the registration of a view, have got.
PcRank(x) ==
  CASE x \in {"off", "none"} -> 0
    [] x \in {"newHash", "spawned"} -> 1
    [] x \in {"makeSeed", "waiting"} -> 2
    [] x \in {"write", "registered"} -> 3
    [] x \in {"dispose", "finalizing"} -> 4
    [] OTHER -> 5

InitialHashState == IF build.hash = "maphash" THEN seed.seed ELSE FnvOffset

\* Where the sum of the computation of goroutine r of view v is once it
\* has been read: the caller of the closures and of sliceSummary stores it
\* as the checksum of the view in the same statement.
SumRead(v, r, t, c) ==
  IF r = "call" /\ build.monitor \in {"closure", "sliceSummary"}
    THEN c[v].checksum
    ELSE t[v][r].sum

\* C22: a goroutine about to write bytes holds a hasher in the initial
\* state (reset, seeded with the seed of the process once that is made, or
\* new); the sum it reads is the hash of the range's bytes from that state
\* and nothing else; a goroutine holds a hasher only from newHash up to
\* disposeHash or the panic, and where there is a disposeHash every
\* computation that does not abort goes through it after the sum is read,
\* putting a pooled hasher back.
C22_ResetAndDispose ==
  /\ [](\A v \in Views, r \in Roles :
          /\ th[v][r].pc = "write" =>
                /\ th[v][r].h # NoHash
                /\ th[v][r].h.st = InitialHashState
                /\ build.hash = "maphash" => seed.once = "done"
          /\ th[v][r].pc = "dispose" => th[v][r].sum = th[v][r].h.st
          /\ th[v][r].h # NoHash =>
                th[v][r].pc \in {"makeSeed", "write", "dispose", "panicked"})
  /\ [][\A v \in Views, r \in Roles :
          /\ (th[v][r].pc = "write" /\ th'[v][r].pc # "write") =>
                SumRead(v, r, th', chk') = HashWrite(InitialHashState, ViewBytes(v))
          /\ (th[v][r].pc # th'[v][r].pc
               /\ th'[v][r].pc \in {"done", "setFinalizer"}
               /\ build.monitor # "closure") =>
                /\ th[v][r].pc = "dispose"
                /\ build.hash = "pooled" => pool' = pool (+) SetToBag({th[v][r].h})]_vars

\* C22 witness: with pooled hashers, the hasher a finished computation put
\* back in a state other than the initial one has been borrowed again, and
\* its borrower is about to write with it reset.
C22_Witness ==
  /\ build.hash = "pooled"
  /\ pool = EmptyBag
  /\ \E u, v \in Views, r \in Roles :
       /\ th[u]["call"].pc = "returned"
       /\ chk[u].len > 0
       /\ chk[u].checksum # FnvOffset
       /\ \A w \in Views, q \in Roles : th[w][q].h # NoHash => (w = v /\ q = r)
       /\ th[v][r].pc = "write"
       /\ th[v][r].h.st = FnvOffset

(***************************************************************************)
(* Claims about the seed, checked under SpecCalls.                         *)
(***************************************************************************)
\* The goroutines inside the function given to seed.once.Do.
SeedMakers ==
  {x \in Views \X Roles : th[x[1]][x[2]].pc = "makeSeed"}

\* C23: with the seeded hash, the seed is made by one goroutine, once: it
\* is written in the step that ends the one run of the function given to
\* seed.once.Do and never after; a goroutine holds a seeded hasher only
\* after that, and the seed of every hasher about to be written to is the
\* seed of the process.
C23_SeedOnce ==
  /\ [](build.hash = "maphash" =>
          /\ Cardinality(SeedMakers) = (IF seed.once = "running" THEN 1 ELSE 0)
          /\ seed.once # "done" => seed.seed = 0
          /\ \A v \in Views, r \in Roles :
                th[v][r].pc = "write" =>
                  (seed.once = "done" /\ th[v][r].h.st = seed.seed))
  /\ [][build.hash = "maphash" =>
          /\ seed.once = "done" => seed' = seed
          /\ seed'.seed # seed.seed =>
                (seed.once = "running" /\ seed'.once = "done")
          /\ seed.once = "running" => seed'.once # "new"]_vars

\* C23 witness: the seed is made and two callers are both about to write,
\* each with the seed of the process.
C23_Witness ==
  /\ build.hash = "maphash"
  /\ seed.once = "done"
  /\ seed.seed \in Seeds
  /\ \A v \in Views :
       /\ th[v]["call"].pc = "write"
       /\ th[v]["call"].h.st = seed.seed

(***************************************************************************)
(* Claims about the pool, checked under SpecPool.                          *)
(***************************************************************************)
\* The goroutines that hold a hasher.
Holders == {x \in Views \X Roles : th[x[1]][x[2]].h # NoHash}

\* C24: with the pooled hashers, no two goroutines hold the same hasher, no
\* hasher a goroutine holds is in the pool, and the pool holds no hasher
\* twice; the pool gains a hasher only by the disposeHash of the goroutine
\* that held it, which has read the sum and holds no hasher afterwards, and
\* loses one only to the one goroutine whose newHash took it.
C24_ExclusiveHashers ==
  /\ [](/\ \A x, y \in Holders :
             th[x[1]][x[2]].h.id = th[y[1]][y[2]].h.id => x = y
        /\ HeldIds \cap PoolIds = {}
        /\ \A a, b \in BagToSet(pool) : a.id = b.id => a = b
        /\ \A a \in BagToSet(pool) : CopiesIn(a, pool) = 1)
  /\ [][/\ PoolIds' \ PoolIds # {} =>
             \E x \in Holders :
               /\ th[x[1]][x[2]].pc = "dispose"
               /\ th[x[1]][x[2]].sum = th[x[1]][x[2]].h.st
               /\ PoolIds' = PoolIds \cup {th[x[1]][x[2]].h.id}
               /\ th'[x[1]][x[2]].h = NoHash
        /\ PoolIds \ PoolIds' # {} =>
             \E x \in (Views \X Roles) \ Holders :
               /\ PoolIds = PoolIds' \cup {th'[x[1]][x[2]].h.id}
               /\ Holders' = Holders \cup {x}]_vars

\* C24 witness: two computations at once, each with a hasher of its own,
\* one of them borrowed from the pool a second time by a background
\* goroutine, and one more hasher lying in the pool.
C24_Witness ==
  /\ Cardinality(Holders) = 2
  /\ Cardinality(HeldIds) = 2
  /\ Cardinality(PoolIds) = 1
  /\ \E x \in Holders : th[x[1]][x[2]].h.id = 1 /\ x[2] # "call"

(***************************************************************************)
(* Claims about the header of a rejected call, checked under SpecConvert.  *)
(***************************************************************************)
\* The messages SetAt and ConvertAt panic with.
RejectionTexts ==
  {"SetAt with dst type; need *[]T", "ConvertAt with src type; need []T",
   "ConvertAt with dst type; need *[]T", "integer divide by zero"}
    \cup ShapeTexts \cup OverflowTexts

\* C25: a call of SetAt or ConvertAt that panics, for the kind of dst or
\* src, for an extent that is no multiple of the element size or for an
\* overflow, has no store behind it and none ahead: the header at *dst
\* changes only in the stores of a call that passed every check, and such
\* a call does not panic any more.
C25_RejectedLeavesHeader ==
  /\ []((pc = "panicked" /\ call.fn \in {"SetAt", "ConvertAt"}) =>
          /\ panicMsg.text \in RejectionTexts
          /\ todo = << >>
          /\ ~ENABLED StoreField)
  /\ [][call'.fn \in {"SetAt", "ConvertAt"} =>
          /\ pc' = "panicked" => (pc = "idle" /\ hdr' = hdr)
          /\ hdr' # hdr => /\ pc = "storing"
                           /\ panicMsg = NoPanic
                           /\ panicMsg' = NoPanic
                           /\ pc' \in {"storing", "returned"}]_vars

\* C25 witness: ConvertAt, given a slice and a pointer to a slot holding
\* another, non-empty slice, panicked for the extent of src, and the slot
\* holds what it held.
C25_Witness ==
  /\ call.fn = "ConvertAt"
  /\ call.srcIsSlice /\ call.dstIsPtrToSlice
  /\ pc = "panicked"
  /\ panicMsg.text \in ShapeTexts \cup OverflowTexts
  /\ hdr \in PriorHdrs
  /\ hdr.Len > 0
  /\ hdr.Data # call.src.Data

(***************************************************************************)
(* Claims about the views made before ReduceSafety, checked under          *)
(* SpecRetro.                                                              *)
(***************************************************************************)
\* The goroutines that check a view after its call.
Background == {"probe", "fin"}

\* Nothing but the collector stands between the registered recheck of v and
\* its run.
FinalizerDue(v) ==
  /\ Running
  /\ reg[v].st = "registered"
  /\ th[v]["call"].pc = "returned"
  /\ th[v]["probe"].pc \in {"off", "done"}
  /\ \A u \in Views : th[u]["fin"].pc \in {"off", "done"}

\* C26: the flag, once set, stays set.  The step in which ReduceSafety
\* returns leaves every checksum, probe, registration and goroutine as it
\* was; after it, a registered recheck can still be run, a probe or recheck
\* under way can still take its next step, and the one that has hashed the
\* range aborts the process with the address of the range when the sum
\* differs from the checksum of the call, and ends quietly when it does not.
C26_NotRetroactive ==
  /\ [][safetyReducedFlag # 0 => safetyReducedFlag' = safetyReducedFlag]_vars
  /\ [][(tpc' # tpc \/ safetyReducedFlag' # safetyReducedFlag) =>
          (th' = th /\ reg' = reg /\ chk' = chk /\ fatal' = fatal /\ mem' = mem)]_vars
  /\ [](tpc.at = "reduced" =>
          \A v \in Views :
            /\ FinalizerDue(v) => ENABLED RunFinalizer(v)
            /\ \A r \in Background :
                 /\ (Running /\ th[v][r].pc = "newHash") => ENABLED NewHash(v, r)
                 /\ (Running /\ th[v][r].pc = "write") => ENABLED Write(v, r))
  /\ [][tpc.at = "reduced" =>
          \A v \in Views, r \in Background :
            (th[v][r].pc = "write" /\ th'[v][r].pc # "write") =>
              IF HashWrite(th[v][r].h.st, ViewBytes(v)) # chk[v].checksum
                THEN /\ fatal' = MutationDetected(PanicAddr(v))
                     /\ th'[v][r].pc = "panicked"
                ELSE /\ fatal' = fatal
                     /\ th'[v][r].pc = "done"]_vars

\* C26 witness: without the race detector, safety was reduced, and the
\* recheck of a range aliased before that, and written to, has aborted the
\* process since.
C26_Witness ==
  /\ ~build.race
  /\ tpc.at = "reduced"
  /\ safetyReduced
  /\ \E v \in Views :
       /\ hist[v].written
       /\ th[v]["fin"].pc = "panicked"
       /\ fatal = MutationDetected(PanicAddr(v))

====
